---- MODULE Spec2Model ----
(***************************************************************************)
(* A model of package sortutil (sortutil.go): the reflection driven        *)
(* Sorter, its table of ordering predicates, Reverse, and the sort.Sort    *)
(* routine that drives Len/Less/Swap.                                      *)
(*                                                                         *)
(* Memory is modelled the way Go lays it out.  A collection V is a slice   *)
(* of slots.  A slot holds an element inline (a primitive or a struct) or  *)
(* holds a reference (a pointer to a struct, or the header of a child      *)
(* slice) to an object of the heap.  A reflect.Value produced by a getter  *)
(* is addressable: it names a place (a slot of V, or an object of the      *)
(* heap) and every read goes to what is stored at that place now.          *)
(***************************************************************************)
EXTENDS Integers, Sequences, FiniteSets, TLC

\* ------------------------------------------------------------------ bounds
\* Longest collection of the general specification.
MaxLen == 3
\* Length of the collections of the long specification (the shortest length
\* at which sort.Sort's gap pass compares anything).
LongLen == 7

\* ------------------------------------------------------- Ordering constants
Ascending == 0
Descending == 1
CaseInsensitiveAscending == 2
CaseInsensitiveDescending == 3

Orderings ==
    {Ascending, Descending, CaseInsensitiveAscending, CaseInsensitiveDescending}

\* ------------------------------------------------------------ reflect.Value
\* What a key's reflect.Value answers: Kind(), Type(), and the accessors
\* String(), Bool(), Int(), Uint(), Float() and Interface().(time.Time).
\* An integer is stored as the bits of its width; a float is NaN or a number.
StringValue(s) ==
    [kind |-> "String", type |-> "string", str |-> s, bits |-> 0, nan |-> FALSE]

BoolValue(b) ==
    [kind |-> "Bool", type |-> "bool", str |-> <<>>,
     bits |-> IF b THEN 1 ELSE 0, nan |-> FALSE]

\* An int8 holding n, -128 <= n <= 127, as its two's complement bits.
Int8Value(n) ==
    [kind |-> "Int8", type |-> "int8", str |-> <<>>,
     bits |-> (n + 256) % 256, nan |-> FALSE]

\* A uint8 holding n, 0 <= n <= 255.
Uint8Value(n) ==
    [kind |-> "Uint8", type |-> "uint8", str |-> <<>>, bits |-> n % 256, nan |-> FALSE]

\* An int, the element type of the child slices of the tests.
IntValue(n) ==
    [kind |-> "Int", type |-> "int", str |-> <<>>, bits |-> n, nan |-> FALSE]

Float64Value(n) ==
    [kind |-> "Float64", type |-> "float64", str |-> <<>>, bits |-> n, nan |-> FALSE]

NaNValue ==
    [kind |-> "Float64", type |-> "float64", str |-> <<>>, bits |-> 0, nan |-> TRUE]

\* A time.Time at instant t: a struct kind whose type is the recognized t_time.
TimeValue(t) ==
    [kind |-> "Struct", type |-> "time.Time", str |-> <<>>, bits |-> t, nan |-> FALSE]

\* The InvalidType struct of the tests: a struct kind of an unrecognized type.
InvalidValue ==
    [kind |-> "Struct", type |-> "InvalidType", str |-> <<>>, bits |-> 0, nan |-> FALSE]

\* A complex128: a non-struct kind outside the kind switch.
ComplexValue ==
    [kind |-> "Complex128", type |-> "complex128", str |-> <<>>, bits |-> 0, nan |-> FALSE]

\* Value.Int(): the bits read as a signed integer of the value's width.
IntOf(v) ==
    IF v.kind = "Int8" /\ v.bits >= 128 THEN v.bits - 256 ELSE v.bits

\* Value.Uint(): the bits read as an unsigned integer.
UintOf(v) == v.bits

\* Value.Bool()
BoolOf(v) == v.bits = 1

\* a < b on float64: false as soon as either side is NaN.
FloatLt(a, b) == ~a.nan /\ ~b.nan /\ a.bits < b.bits

\* a < b on Go strings: bytewise lexicographic, a proper prefix coming first.
RECURSIVE StrLt(_, _)
StrLt(a, b) ==
    IF b = <<>> THEN FALSE
    ELSE IF a = <<>> THEN TRUE
    ELSE IF Head(a) # Head(b) THEN Head(a) < Head(b)
    ELSE StrLt(Tail(a), Tail(b))

\* strings.ToLower on ASCII: 'A'..'Z' (65..90) map to 'a'..'z'.
ToLower(s) ==
    [k \in 1..Len(s) |-> IF s[k] \in 65..90 THEN s[k] + 32 ELSE s[k]]

\* --------------------------------------------------- the ordering predicates
\* Each Less of the table, on the two key values it reads (a = vals[i],
\* b = vals[j]).
stringAscendingLess(a, b) == StrLt(a.str, b.str)

stringDescendingLess(a, b) == StrLt(b.str, a.str)

\* stringInsensitiveAscendingLess with the right-hand key left as it is.
stringInsensitiveAscendingLessRaw(a, b) == StrLt(ToLower(a.str), b.str)

stringInsensitiveAscendingLess(a, b) == StrLt(ToLower(a.str), ToLower(b.str))

stringInsensitiveDescendingLess(a, b) == StrLt(ToLower(b.str), ToLower(a.str))

boolAscendingLess(a, b) == ~BoolOf(a) /\ BoolOf(b)

boolDescendingLess(a, b) == BoolOf(a) /\ ~BoolOf(b)

intAscendingLess(a, b) == IntOf(a) < IntOf(b)

intDescendingLess(a, b) == IntOf(a) > IntOf(b)

uintAscendingLess(a, b) == UintOf(a) < UintOf(b)

uintDescendingLess(a, b) == UintOf(a) > UintOf(b)

\* floatAscendingLess without its NaN clause.
floatAscendingLessNoNaN(a, b) == FloatLt(a, b)

floatAscendingLess(a, b) == FloatLt(a, b) \/ (a.nan /\ ~b.nan)

\* floatDescendingLess with floatAscendingLess's NaN test left as it was.
floatDescendingLessNaNFirst(a, b) == FloatLt(b, a) \/ (a.nan /\ ~b.nan)

floatDescendingLess(a, b) == FloatLt(b, a) \/ (~a.nan /\ b.nan)

timeAscendingLess(a, b) == a.bits < b.bits

\* timeDescendingLess calling Before, as timeAscendingLess does.
timeDescendingLessBefore(a, b) == a.bits < b.bits

timeDescendingLess(a, b) == a.bits > b.bits

\* The Less of the adapter type named t.
LessOf(t, a, b) ==
    CASE t = "stringAscending" -> stringAscendingLess(a, b)
      [] t = "stringDescending" -> stringDescendingLess(a, b)
      [] t = "stringInsensitiveAscending" -> stringInsensitiveAscendingLess(a, b)
      [] t = "stringInsensitiveDescending" -> stringInsensitiveDescendingLess(a, b)
      [] t = "boolAscending" -> boolAscendingLess(a, b)
      [] t = "boolDescending" -> boolDescendingLess(a, b)
      [] t = "intAscending" -> intAscendingLess(a, b)
      [] t = "intDescending" -> intDescendingLess(a, b)
      [] t = "uintAscending" -> uintAscendingLess(a, b)
      [] t = "uintDescending" -> uintDescendingLess(a, b)
      [] t = "floatAscending" -> floatAscendingLess(a, b)
      [] t = "floatDescending" -> floatDescendingLess(a, b)
      [] t = "timeAscending" -> timeAscendingLess(a, b)
      [] t = "timeDescending" -> timeDescendingLess(a, b)

\* ------------------------------------------------------ Sort's type dispatch
IntKinds == {"Int", "Int8", "Int16", "Int32", "Int64"}

UintKinds == {"Uint", "Uint8", "Uint16", "Uint32", "Uint64"}

FloatKinds == {"Float32", "Float64"}

\* Directed with the case-insensitive orderings taken as their case-sensitive
\* counterparts instead of reaching the default arm.
DirectedCoerced(o, asc, desc) ==
    CASE o \in {Ascending, CaseInsensitiveAscending} -> [panic |-> "", less |-> asc]
      [] o \in {Descending, CaseInsensitiveDescending} -> [panic |-> "", less |-> desc]
      [] OTHER -> [panic |-> "InvalidOrderingForKind", less |-> ""]

\* The adapter for Ascending or Descending, a panic for any other ordering.
Directed(o, asc, desc) ==
    CASE o = Ascending -> [panic |-> "", less |-> asc]
      [] o = Descending -> [panic |-> "", less |-> desc]
      [] OTHER -> [panic |-> "InvalidOrderingForKind", less |-> ""]

\* Dispatch with the type switch's default missing: any struct sorts as a
\* time.Time.
DispatchAnyType(kind, type, o) ==
    CASE kind = "String" ->
           (CASE o = Ascending -> [panic |-> "", less |-> "stringAscending"]
              [] o = Descending -> [panic |-> "", less |-> "stringDescending"]
              [] o = CaseInsensitiveAscending ->
                   [panic |-> "", less |-> "stringInsensitiveAscending"]
              [] o = CaseInsensitiveDescending ->
                   [panic |-> "", less |-> "stringInsensitiveDescending"]
              [] OTHER -> [panic |-> "InvalidOrderingForKind", less |-> ""])
      [] kind = "Bool" -> Directed(o, "boolAscending", "boolDescending")
      [] kind \in IntKinds -> Directed(o, "intAscending", "intDescending")
      [] kind \in UintKinds -> Directed(o, "uintAscending", "uintDescending")
      [] kind \in FloatKinds -> Directed(o, "floatAscending", "floatDescending")
      [] OTHER -> Directed(o, "timeAscending", "timeDescending")

\* The switch of Sorter.Sort on the first key's kind, then its type, then the
\* ordering: the adapter handed to sort.Sort, or the panic raised instead
\* ("Cannot sort by type %v": UnsupportedType; "Invalid ordering %v for ...":
\* InvalidOrderingForKind).
Dispatch(kind, type, o) ==
    CASE kind = "String" ->
           (CASE o = Ascending -> [panic |-> "", less |-> "stringAscending"]
              [] o = Descending -> [panic |-> "", less |-> "stringDescending"]
              [] o = CaseInsensitiveAscending ->
                   [panic |-> "", less |-> "stringInsensitiveAscending"]
              [] o = CaseInsensitiveDescending ->
                   [panic |-> "", less |-> "stringInsensitiveDescending"]
              [] OTHER -> [panic |-> "InvalidOrderingForKind", less |-> ""])
      [] kind = "Bool" -> Directed(o, "boolAscending", "boolDescending")
      [] kind \in IntKinds -> Directed(o, "intAscending", "intDescending")
      [] kind \in UintKinds -> Directed(o, "uintAscending", "uintDescending")
      [] kind \in FloatKinds -> Directed(o, "floatAscending", "floatDescending")
      [] OTHER ->
           IF type = "time.Time"
           THEN Directed(o, "timeAscending", "timeDescending")
           ELSE [panic |-> "UnsupportedType", less |-> ""]

\* ------------------------------------------------------------------ inputs
\* The strings "A", "a", "B" and "aB" as bytes.
Strings == {<<65>>, <<97>>, <<66>>, <<97, 66>>}

\* The key types the inputs are drawn from.
KeyTypes ==
    {"string", "bool", "int8", "uint8", "float64", "time.Time", "InvalidType",
     "complex128"}

\* The keys of one type (a collection is homogeneous).
KeysOf(t) ==
    CASE t = "string" -> {StringValue(s) : s \in Strings}
      [] t = "bool" -> {BoolValue(b) : b \in BOOLEAN}
      [] t = "int8" -> {Int8Value(n) : n \in {-1, 0, 1}}
      [] t = "uint8" -> {Uint8Value(n) : n \in {0, 1, 255}}
      [] t = "float64" -> {NaNValue, Float64Value(0), Float64Value(1)}
      [] t = "time.Time" -> {TimeValue(t0) : t0 \in {0, 1, 2}}
      [] t = "InvalidType" -> {InvalidValue}
      [] t = "complex128" -> {ComplexValue}

\* The child slices of a [][]int: one too short for position 1.
Children == {<<2, 0>>, <<1, 1>>, <<0, 2>>, <<0>>}

\* nestedIntSlice() of the tests, sorted there by position 2.
nestedIntSlice == <<<<4, 5, 1>>, <<2, 1, 7>>, <<9, 3, 3>>, <<1, 6, 2>>>>

\* The Go types of the caller's collection: a slice of keys, of Item structs,
\* of pointers to Item, of int slices.
SliceTypes == {"[]K", "[]Item", "[]*Item", "[][]int"}

\* Slots of these hold a reference to a heap object, not the element itself.
ByReference == {"[]*Item", "[][]int"}

\* An Item: its identity and F, the field sorted by.
Item(id, key) == [Id |-> id, F |-> key]

\* The collections of n elements of slice type st with keys of type t, as the
\* sequence of their elements' contents.
Collections(st, t, n) ==
    CASE st = "[]K" -> [1..n -> KeysOf(t)]
      [] st \in {"[]Item", "[]*Item"} ->
           {[k \in 1..n |-> Item(k, ks[k])] : ks \in [1..n -> KeysOf(t)]}
      [] st = "[][]int" -> [1..n -> Children]

\* ------------------------------------------------------------------- state
VARIABLES
    input,      \* what the caller built: [type, elems, index]
    sliceType,  \* the Go type of the collection in hand
    V,          \* Sorter.V: the caller's collection, slot by slot
    heap,       \* the objects the slots of a by-reference collection point to
    T,          \* Sorter.T
    G,          \* Sorter.G
    Ordering,   \* Sorter.Ordering
    vals,       \* Sorter.vals: the places the keys are read from
    valKind,    \* Sorter.valKind
    valType,    \* Sorter.valType
    less,       \* the adapter type handed to sort.Sort
    pc,         \* where the caller is
    err,        \* the panic raised, "" if none
    i,          \* loop variable of sort.Sort and of Reverse
    j,          \* loop variable of sort.Sort and of Reverse
    swaps,      \* Swap calls made by the sort.Sort or Reverse in progress
    compares,   \* Less calls made by the sort.Sort or Reverse in progress
    op,         \* the operation the caller invoked last: Sort, Reverse, SortReverse
    before,     \* the collection's contents when that operation was invoked
    did,        \* the operations completed on this collection
    prev        \* how the caller's previous collection ended

vars ==
    <<input, sliceType, V, heap, T, G, Ordering, vals, valKind, valType, less,
      pc, err, i, j, swaps, compares, op, before, did, prev>>

\* The slots and the heap of a fresh collection with contents es.
SlotsOf(st, es) ==
    IF st \in ByReference THEN [k \in 1..Len(es) |-> k] ELSE es

HeapOf(st, es) == IF st \in ByReference THEN es ELSE <<>>

\* The element stored at slot k (1-based), with a reference followed.
ElemAt(k) == IF sliceType \in ByReference THEN heap[V[k]] ELSE V[k]

\* The collection as the caller sees it: every element, in slot order.
Contents == [k \in 1..Len(V) |-> ElemAt(k)]

\* The key of an element: what the getter's field or index selects in it.
KeyIn(e) ==
    CASE sliceType = "[]K" -> e
      [] sliceType \in {"[]Item", "[]*Item"} -> e.F
      [] sliceType = "[][]int" -> IntValue(e[input.index + 1])

\* The keys of the elements in their current positions.
KeysNow == [k \in 1..Len(V) |-> KeyIn(ElemAt(k))]

\* Go's bounds check of an index expression x[n] (n counted from 0).
InRange(x, n) == n >= 0 /\ n < Len(x)

\* ------------------------------------------------------------------ getters
\* The place a getter's reflect.Value for element k names.  Index(k) is slot
\* k of the collection; reflect.Indirect of a pointer and Index of a child
\* slice follow the reference held in the slot when the getter runs, so the
\* Value names the object found then.
PlaceOf(k) ==
    IF sliceType \in ByReference
    THEN [slot |-> 0, obj |-> V[k]]
    ELSE [slot |-> k, obj |-> 0]

\* G(V): one reflect.Value per element, or the panic of reflect's Index when
\* a child slice is too short for the position asked.
GetterVals ==
    IF /\ G = "IndexGetter"
       /\ \E k \in 1..Len(V) : ~InRange(heap[V[k]], input.index)
    THEN [panic |-> "IndexOutOfRange", vals |-> <<>>]
    ELSE [panic |-> "", vals |-> [k \in 1..Len(V) |-> PlaceOf(k)]]

\* What the reflect.Value at place p reads now.
ReadAt(p) == KeyIn(IF p.obj = 0 THEN V[p.slot] ELSE heap[p.obj])

\* The key Less reads at index n (from 0): vals[n].
KeyRead(n) == ReadAt(vals[n + 1])

\* data.Less(a, b) of the adapter handed to sort.Sort.
Less(a, b) == LessOf(less, KeyRead(a), KeyRead(b))

\* Swap with the element at a overwritten before it was saved in tmp.
SwapSlotsOneWay(v, a, b) == [v EXCEPT ![a + 1] = v[b + 1]]

\* Sorter.Swap(a, b) on the collection: the elements at a and b exchanged
\* through tmp.  Nothing else is assigned: vals is left as it is.
SwapSlots(v, a, b) == [v EXCEPT ![a + 1] = v[b + 1], ![b + 1] = v[a + 1]]

\* Sorter.Len()
SorterLen == Len(vals)

\* ------------------------------------------------------------------- calls
\* v.Index(0).Type() of a collection of slice type st.
ElemType(st) ==
    CASE st = "[]K" -> "K"
      [] st = "[]Item" -> "Item"
      [] st = "[]*Item" -> "*Item"
      [] st = "[][]int" -> "[]int"

\* The getter the caller passes for a collection of slice type st: none for
\* a slice of keys (Asc, Desc, CiAsc, CiDesc), FieldGetter for structs and
\* pointers to structs (AscByField, ...), IndexGetter for child slices
\* (AscByIndex, ...).
GetterFor(st) ==
    CASE st = "[]K" -> "nil"
      [] st \in {"[]Item", "[]*Item"} -> "FieldGetter"
      [] st = "[][]int" -> "IndexGetter"

\* No previous collection.
None == [type |-> "", Ordering |-> 0, did |-> <<>>, contents |-> <<>>, keys |-> <<>>]

\* The caller holds a collection of slice type st with contents es and is
\* about to call Sort on it with ordering o.
Start(st, es, o) ==
    /\ sliceType = st
    /\ V = SlotsOf(st, es)
    /\ heap = HeapOf(st, es)
    /\ G = GetterFor(st)
    /\ Ordering = o
    /\ T = ""
    /\ vals = <<>>
    /\ valKind = ""
    /\ valType = ""
    /\ less = ""
    /\ pc = "call"
    /\ err = ""
    /\ i = 0
    /\ j = 0
    /\ swaps = 0
    /\ compares = 0
    /\ op = ""
    /\ before = <<>>
    /\ did = <<>>

\* The inputs of the general specification: every slice type, key type,
\* ordering and collection of at most MaxLen elements, and nestedIntSlice.
Init ==
    /\ prev = None
    /\ \E st \in SliceTypes, o \in Orderings :
         \/ \E t \in (IF st = "[][]int" THEN {"int"} ELSE KeyTypes), n \in 0..MaxLen :
              \E es \in Collections(st, t, n), p \in (IF st = "[][]int" THEN {0, 1} ELSE {0}) :
                /\ input = [type |-> st, elems |-> es, index |-> p]
                /\ Start(st, es, o)
         \/ /\ st = "[][]int"
            /\ input = [type |-> st, elems |-> nestedIntSlice, index |-> 2]
            /\ Start(st, nestedIntSlice, o)

\* New taking the element type without indexing the collection.
NewUnchecked ==
    /\ pc = "call"
    /\ T' = ElemType(sliceType)
    /\ pc' = "new"
    /\ op' = "Sort"
    /\ before' = Contents
    /\ UNCHANGED <<input, sliceType, V, heap, G, Ordering, vals, valKind, valType,
                   less, err, i, j, swaps, compares, did, prev>>

\* New(slice, getter, ordering): v.Index(0) panics on a collection of no
\* elements (reflect: slice index out of range), the EmptyCollection failure.
New ==
    /\ pc = "call"
    /\ IF InRange(V, 0)
       THEN /\ T' = ElemType(sliceType)
            /\ pc' = "new"
            /\ err' = err
       ELSE /\ pc' = "panic"
            /\ err' = "EmptyCollection"
            /\ T' = T
    /\ op' = "Sort"
    /\ before' = Contents
    /\ UNCHANGED <<input, sliceType, V, heap, G, Ordering, vals, valKind, valType,
                   less, i, j, swaps, compares, did, prev>>

\* The sort.Sort routines a build can link: with the gap pass before the
\* insertion sort (Go 1.6 to 1.18) or the insertion sort alone.
Builds == {"gap", "plain"}

\* Sorter.Sort looking at the ordering only after sort.Sort's first exchange
\* of the first two elements.
SortCheckedLate ==
    /\ pc = "new"
    /\ G' = IF G = "nil" THEN "SimpleGetter" ELSE G
    /\ LET got == GetterVals
           one == ReadAt(got.vals[1])
           d == Dispatch(one.kind, one.type, Ordering)
       IN  IF got.panic # ""
           THEN /\ pc' = "panic"
                /\ err' = got.panic
                /\ swaps' = 0
                /\ UNCHANGED <<V, vals, valKind, valType, less, i, j>>
           ELSE IF ~InRange(got.vals, 0)
           THEN /\ pc' = "panic"
                /\ err' = "EmptyCollection"
                /\ vals' = got.vals
                /\ swaps' = 0
                /\ UNCHANGED <<V, valKind, valType, less, i, j>>
           ELSE /\ vals' = got.vals
                /\ valType' = one.type
                /\ valKind' = one.kind
                /\ IF d.panic # ""
                   THEN /\ pc' = "panic"
                        /\ err' = d.panic
                        /\ IF Len(V) > 1
                           THEN V' = SwapSlots(V, 1, 0) /\ swaps' = 1
                           ELSE V' = V /\ swaps' = 0
                        /\ UNCHANGED <<less, i, j>>
                   ELSE /\ less' = d.less
                        /\ err' = err
                        /\ V' = V
                        /\ swaps' = 0
                        /\ \E b \in Builds :
                             IF b = "gap" /\ Len(got.vals) > 1
                             THEN pc' = "gap" /\ i' = 6 /\ j' = 0
                             ELSE pc' = "insert" /\ i' = 1 /\ j' = 1
    /\ compares' = 0
    /\ UNCHANGED <<input, sliceType, heap, T, Ordering, op, before, did, prev>>

\* Sorter.Sort up to its call of sort.Sort: the default getter, the keys, the
\* first key's type and kind, the dispatch.
Sort ==
    /\ pc = "new"
    /\ G' = IF G = "nil" THEN "SimpleGetter" ELSE G
    /\ LET got == GetterVals
           one == ReadAt(got.vals[1])
           d == Dispatch(one.kind, one.type, Ordering)
       IN  IF got.panic # ""
           THEN /\ pc' = "panic"
                /\ err' = got.panic
                /\ UNCHANGED <<vals, valKind, valType, less, i, j>>
           ELSE IF ~InRange(got.vals, 0)
           THEN /\ pc' = "panic"
                /\ err' = "EmptyCollection"
                /\ vals' = got.vals
                /\ UNCHANGED <<valKind, valType, less, i, j>>
           ELSE /\ vals' = got.vals
                /\ valType' = one.type
                /\ valKind' = one.kind
                /\ IF d.panic # ""
                   THEN /\ pc' = "panic"
                        /\ err' = d.panic
                        /\ UNCHANGED <<less, i, j>>
                   ELSE /\ less' = d.less
                        /\ err' = err
                        /\ \E b \in Builds :
                             IF b = "gap" /\ Len(got.vals) > 1
                             THEN pc' = "gap" /\ i' = 6 /\ j' = 0
                             ELSE pc' = "insert" /\ i' = 1 /\ j' = 1
    /\ swaps' = 0
    /\ compares' = 0
    /\ UNCHANGED <<input, sliceType, V, heap, T, Ordering, op, before, did, prev>>

\* The capabilities of the tests: SortableItems over a []Item and
\* SortablePointers over a []*Item.
Sortable == {"[]Item", "[]*Item"}

\* SortableItems.Less and SortablePointers.Less: s[i].Id > s[j].Id
SortableItemsLess(a, b) == ElemAt(a + 1).Id > ElemAt(b + 1).Id

\* SortableItems.Len and SortablePointers.Len: len(s)
SortableItemsLen == Len(V)

\* data.Less(a, b) of what sort.Sort was handed: the Sorter's adapter in Sort,
\* the caller's capability in SortReverse.
DataLess(a, b) == IF op = "SortReverse" THEN SortableItemsLess(a, b) ELSE Less(a, b)

\* data.Len()
DataLen == IF op = "SortReverse" THEN SortableItemsLen ELSE SorterLen

\* SortReverse(s) on the caller's collection through SortableItems or
\* SortablePointers: sort.Sort(s), then Reverse(s).  The call of sort.Sort.
SortReverseBegin ==
    /\ pc \in {"call", "done"}
    /\ prev = None
    /\ sliceType \in Sortable
    /\ op' = "SortReverse"
    /\ before' = Contents
    /\ swaps' = 0
    /\ compares' = 0
    /\ \E b \in Builds :
         IF b = "gap" /\ Len(V) > 1
         THEN pc' = "gap" /\ i' = 6 /\ j' = 0
         ELSE pc' = "insert" /\ i' = 1 /\ j' = 1
    /\ UNCHANGED <<input, sliceType, V, heap, T, G, Ordering, vals, valKind, valType,
                   less, err, did, prev>>

\* sort.Sort, the gap pass:
\*   for i := a + 6; i < b; i++ { if data.Less(i, i-6) { data.Swap(i, i-6) } }
\* and then the insertion sort.
GapStep ==
    /\ pc = "gap"
    /\ IF i < DataLen
       THEN /\ IF DataLess(i, i - 6)
               THEN V' = SwapSlots(V, i, i - 6) /\ swaps' = swaps + 1
               ELSE UNCHANGED <<V, swaps>>
            /\ compares' = compares + 1
            /\ i' = i + 1
            /\ UNCHANGED <<pc, j>>
       ELSE /\ pc' = "insert"
            /\ i' = 1
            /\ j' = 1
            /\ UNCHANGED <<V, swaps, compares>>
    /\ UNCHANGED <<input, sliceType, heap, T, G, Ordering, vals, valKind, valType,
                   less, err, op, before, did, prev>>

\* sort.Sort, the insertion sort:
\*   for i := a + 1; i < b; i++ {
\*       for j := i; j > a && data.Less(j, j-1); j-- { data.Swap(j, j-1) } }
\* The inner loop's body.
InsertSwap ==
    /\ pc = "insert"
    /\ i < DataLen
    /\ j > 0 /\ DataLess(j, j - 1)
    /\ V' = SwapSlots(V, j, j - 1)
    /\ swaps' = swaps + 1
    /\ compares' = compares + 1
    /\ j' = j - 1
    /\ UNCHANGED <<input, sliceType, heap, T, G, Ordering, vals, valKind, valType,
                   less, pc, err, i, op, before, did, prev>>

\* The inner loop ends: the outer loop's next round.
InsertNext ==
    /\ pc = "insert"
    /\ i < DataLen
    /\ ~(j > 0 /\ DataLess(j, j - 1))
    /\ compares' = IF j > 0 THEN compares + 1 ELSE compares
    /\ i' = i + 1
    /\ j' = i + 1
    /\ UNCHANGED <<input, sliceType, V, heap, T, G, Ordering, vals, valKind, valType,
                   less, pc, err, swaps, op, before, did, prev>>

\* The outer loop ends and SortReverse returns with Sorter.Sort, Reverse(s)
\* left out.
InsertEndReturns ==
    /\ pc = "insert"
    /\ ~(i < DataLen)
    /\ pc' = IF op = "SortReverse" THEN "reversed" ELSE "done"
    /\ did' = Append(did, op)
    /\ UNCHANGED <<input, sliceType, V, heap, T, G, Ordering, vals, valKind, valType,
                   less, err, i, j, swaps, compares, op, before, prev>>

\* The outer loop ends: sort.Sort returns, and Sorter.Sort with it; SortReverse
\* goes on to Reverse(s), the initialisation of its loop.
InsertEnd ==
    /\ pc = "insert"
    /\ ~(i < DataLen)
    /\ IF op = "SortReverse"
       THEN /\ pc' = "reverse"
            /\ i' = 0
            /\ j' = SortableItemsLen - 1
            /\ swaps' = 0
            /\ compares' = 0
            /\ did' = did
       ELSE /\ pc' = "done"
            /\ did' = Append(did, op)
            /\ UNCHANGED <<i, j, swaps, compares>>
    /\ UNCHANGED <<input, sliceType, V, heap, T, G, Ordering, vals, valKind, valType,
                   less, err, op, before, prev>>

\* Reverse starting one short of the last element.
ReverseBeginShort ==
    /\ pc \in {"call", "done"}
    /\ prev = None
    /\ pc' = "reverse"
    /\ op' = "Reverse"
    /\ before' = Contents
    /\ i' = 0
    /\ j' = Len(V) - 2
    /\ swaps' = 0
    /\ compares' = 0
    /\ UNCHANGED <<input, sliceType, V, heap, T, G, Ordering, vals, valKind, valType,
                   less, err, did, prev>>

\* Reverse(s) on the caller's collection through a capability of its slice
\* type (Len: its length, Swap: the elements at i and j exchanged):
\*   for i, j := 0, s.Len()-1; i < j; i, j = i+1, j-1 { s.Swap(i, j) }
\* The loop's initialisation.
ReverseBegin ==
    /\ pc \in {"call", "done"}
    /\ prev = None
    /\ pc' = "reverse"
    /\ op' = "Reverse"
    /\ before' = Contents
    /\ i' = 0
    /\ j' = Len(V) - 1
    /\ swaps' = 0
    /\ compares' = 0
    /\ UNCHANGED <<input, sliceType, V, heap, T, G, Ordering, vals, valKind, valType,
                   less, err, did, prev>>

\* The loop's body with only i stepped.
ReverseSwapOneSided ==
    /\ pc = "reverse"
    /\ i < j
    /\ V' = SwapSlots(V, i, j)
    /\ swaps' = swaps + 1
    /\ i' = i + 1
    /\ j' = j
    /\ UNCHANGED <<input, sliceType, heap, T, G, Ordering, vals, valKind, valType,
                   less, pc, err, compares, op, before, did, prev>>

\* The loop's body.
ReverseSwap ==
    /\ pc = "reverse"
    /\ i < j
    /\ V' = SwapSlots(V, i, j)
    /\ swaps' = swaps + 1
    /\ i' = i + 1
    /\ j' = j - 1
    /\ UNCHANGED <<input, sliceType, heap, T, G, Ordering, vals, valKind, valType,
                   less, pc, err, compares, op, before, did, prev>>

\* The loop ends: Reverse returns, and SortReverse with it.
ReverseEnd ==
    /\ pc = "reverse"
    /\ ~(i < j)
    /\ pc' = "reversed"
    /\ did' = Append(did, op)
    /\ UNCHANGED <<input, sliceType, V, heap, T, G, Ordering, vals, valKind, valType,
                   less, err, i, j, swaps, compares, op, before, prev>>

\* The slice types of a second collection with the same contents: the same
\* type, or the pointed-to structs themselves.
SecondTypes(st) == IF st = "[]*Item" THEN {"[]*Item", "[]Item"} ELSE {st}

\* The caller keeps the sorted collection and sorts a second one with the
\* input's contents (each test builds its own with items(), pointers(), ...).
Again ==
    /\ pc \in {"done", "reversed"}
    /\ prev = None
    /\ did \in {<<"Sort">>, <<"Sort", "Reverse">>}
    /\ prev' = [type |-> sliceType, Ordering |-> Ordering, did |-> did,
                contents |-> Contents, keys |-> KeysNow]
    /\ \E st \in SecondTypes(input.type), o \in Orderings :
         /\ sliceType' = st
         /\ V' = SlotsOf(st, input.elems)
         /\ heap' = HeapOf(st, input.elems)
         /\ G' = GetterFor(st)
         /\ Ordering' = o
    /\ T' = ""
    /\ vals' = <<>>
    /\ valKind' = ""
    /\ valType' = ""
    /\ less' = ""
    /\ pc' = "call"
    /\ err' = ""
    /\ i' = 0
    /\ j' = 0
    /\ swaps' = 0
    /\ compares' = 0
    /\ op' = ""
    /\ before' = <<>>
    /\ did' = <<>>
    /\ UNCHANGED input

Next ==
    \/ New
    \/ Sort
    \/ SortReverseBegin
    \/ GapStep
    \/ InsertSwap
    \/ InsertNext
    \/ InsertEnd
    \/ ReverseBegin
    \/ ReverseSwap
    \/ ReverseEnd
    \/ Again

Spec == Init /\ [][Next]_vars

\* -------------------------------------------------- the long specification
\* The strings "A", "a" and "B".
LongStrings == {<<65>>, <<97>>, <<66>>}

\* The inputs of the long specification: slices of LongLen Items with string
\* keys, sorted case-insensitively.
InitLong ==
    /\ prev = None
    /\ \E o \in {CaseInsensitiveAscending, CaseInsensitiveDescending} :
         \E ks \in [1..LongLen -> {StringValue(s) : s \in LongStrings}] :
           LET es == [k \in 1..LongLen |-> Item(k, ks[k])]
           IN  /\ input = [type |-> "[]Item", elems |-> es, index |-> 0]
               /\ Start("[]Item", es, o)

\* One Sort call.
NextLong ==
    \/ New
    \/ Sort
    \/ GapStep
    \/ InsertSwap
    \/ InsertNext
    \/ InsertEnd

SpecLong == InitLong /\ [][NextLong]_vars

\* -------------------------------------------------- the Reverse specification
\* One Reverse call on a fresh collection.
NextReverse ==
    \/ ReverseBegin
    \/ ReverseSwap
    \/ ReverseEnd

\* Reverse is a sequential loop: once called it keeps running.
SpecReverse == Init /\ [][NextReverse]_vars /\ WF_vars(NextReverse)

\* ------------------------------------------------------------------ claims
\* keys is in the order of the adapter t: no key is Less than the one before.
SortedBy(t, keys) ==
    \A k \in 1..(Len(keys) - 1) : ~LessOf(t, keys[k + 1], keys[k])

\* Sort has returned on the collection in hand, and nothing was done to it since.
Sorted == pc = "done" /\ did = <<"Sort">>

\* C1: after Sort returns, the collection is sorted with respect to the
\* selected predicate applied to the keys of the elements in their final
\* positions: no element's key is less than the key of the element before it.
C1_SortedAfterSort == Sorted => SortedBy(less, KeysNow)

\* C2: throughout a Sort call, and so after every Swap, the key Less reads at
\* position k (vals[k]) is the key of the element now stored at position k of
\* the caller's collection.
C2_KeysAligned ==
    (op = "Sort" /\ pc \in {"gap", "insert", "done"}) =>
        \A k \in 1..Len(V) : ReadAt(vals[k]) = KeyIn(ElemAt(k))

\* C3: sorting a collection of pointers to structs by a field leaves the
\* elements in the same key order as sorting the collection of the pointed-to
\* structs by that field with the same ordering.
C3_PointerTransparency ==
    (/\ Sorted
     /\ sliceType = "[]Item"
     /\ prev.type = "[]*Item"
     /\ prev.did = <<"Sort">>
     /\ prev.Ordering = Ordering) => prev.keys = KeysNow

\* C4: sorting a collection of int slices Ascending by position p (every
\* element longer than p) leaves the values at position p in non-decreasing
\* order, and nestedIntSlice sorted by position 2 has the keys 1, 2, 3, 7.
C4_SortedByIndex ==
    (Sorted /\ sliceType = "[][]int" /\ Ordering = Ascending) =>
        /\ \A k \in 1..(Len(V) - 1) : KeysNow[k].bits <= KeysNow[k + 1].bits
        /\ input.elems = nestedIntSlice =>
             [k \in 1..Len(V) |-> KeysNow[k].bits] = <<1, 2, 3, 7>>

\* The second half of C4 alone: nestedIntSlice sorted Ascending by position 2
\* has the keys 1, 2, 3, 7.
NestedExampleSorted ==
    (Sorted /\ input.elems = nestedIntSlice /\ Ordering = Ascending) =>
        [k \in 1..Len(V) |-> KeysNow[k].bits] = <<1, 2, 3, 7>>

\* The caller sorted one collection Ascending and reversed it, and has now
\* sorted a second one of the same type and contents Descending.
AscReversedThenDesc ==
    /\ Sorted
    /\ Ordering = Descending
    /\ prev.type = sliceType
    /\ prev.did = <<"Sort", "Reverse">>
    /\ prev.Ordering = Ascending

\* No two elements have the same key.
DistinctKeys ==
    \A a, b \in 1..Len(V) : a # b => KeyIn(ElemAt(a)) # KeyIn(ElemAt(b))

\* C5 as stated: sorting Ascending and then applying Reverse yields the same
\* collection as sorting the original collection Descending directly.
C5_ReverseOfAscIsDesc == AscReversedThenDesc => prev.contents = Contents

\* C5 amended: for a collection whose elements are held by value, sorting
\* Ascending and then applying Reverse yields the same sequence of keys as
\* sorting Descending directly, and the same collection when no two elements
\* have the same key.
C5_ReverseOfAscIsDescKeys ==
    (AscReversedThenDesc /\ sliceType \notin ByReference) =>
        /\ prev.keys = KeysNow
        /\ DistinctKeys => prev.contents = Contents

\* C5's case: structs sorted both ways, two of them with the same key and a
\* third with another.
C5_Witness ==
    /\ AscReversedThenDesc
    /\ sliceType = "[]Item"
    /\ Len(V) = 3
    /\ ~DistinctKeys
    /\ KeysNow[1] # KeysNow[3]

\* C6: for a collection whose timestamp keys are pairwise distinct, the
\* element at position i of the Descending result is the element at position
\* len-1-i of the Ascending result.
C6_TimeMirror ==
    (/\ Sorted
     /\ Ordering = Descending
     /\ valType = "time.Time"
     /\ DistinctKeys
     /\ prev.type = sliceType
     /\ prev.did = <<"Sort">>
     /\ prev.Ordering = Ascending) =>
        \A k \in 1..Len(V) : Contents[k] = prev.contents[Len(V) + 1 - k]

\* Sort has returned from a CaseInsensitiveAscending sort of Items.
SortedInsensitive ==
    /\ Sorted
    /\ sliceType = "[]Item"
    /\ less = "stringInsensitiveAscending"

\* The elements at positions a and b have keys equal when lower-cased.
CaseEqual(a, b) == ToLower(KeysNow[a].str) = ToLower(KeysNow[b].str)

\* C7 as stated: under CaseInsensitiveAscending, elements whose keys are equal
\* when lower-cased keep their original relative order (an Item's Id is its
\* original position).
C7_CaseEqualKeepOrder ==
    SortedInsensitive =>
        \A a, b \in 1..Len(V) :
            (a < b /\ CaseEqual(a, b)) => Contents[a].Id < Contents[b].Id

\* C7 amended: under CaseInsensitiveAscending on the string keys of a
\* collection held by value, the result is in the order of the lower-cased
\* keys, so elements whose keys are equal when lower-cased end up next to each
\* other; their relative order is the one sort.Sort leaves, which need not be
\* the original one.
C7_CaseEqualAdjacent ==
    (Sorted /\ less = "stringInsensitiveAscending" /\ sliceType \notin ByReference) =>
        /\ \A k \in 1..(Len(V) - 1) :
             ~StrLt(ToLower(KeysNow[k + 1].str), ToLower(KeysNow[k].str))
        /\ \A a, b, c \in 1..Len(V) :
             (a < c /\ c < b /\ CaseEqual(a, b)) => CaseEqual(a, c)

\* C7's case: "A" ends up before an "a" that came before it in the input.
C7_Witness ==
    /\ SortedInsensitive
    /\ \E a, b \in 1..Len(V) :
         /\ a < b
         /\ KeysNow[a].str = <<65>>
         /\ KeysNow[b].str = <<97>>
         /\ Contents[a].Id > Contents[b].Id

\* C8 as stated: in Ascending all NaN keys end up after every non-NaN key, in
\* Descending before.
C8_NaNGreatest ==
    Sorted =>
        \A a, b \in 1..Len(V) :
            (KeysNow[a].nan /\ ~KeysNow[b].nan) =>
                /\ less = "floatAscending" => a > b
                /\ less = "floatDescending" => a < b

\* C8 amended: for the float keys of a collection held by value, NaN is
\* sorted as less than everything: in Ascending all NaN keys end up before
\* every non-NaN key, in Descending after.
C8_NaNLeast ==
    (Sorted /\ sliceType \notin ByReference) =>
        \A a, b \in 1..Len(V) :
            (KeysNow[a].nan /\ ~KeysNow[b].nan) =>
                /\ less = "floatAscending" => a < b
                /\ less = "floatDescending" => a > b

\* C8's case: Sort moved a NaN that was last to the front of an Ascending
\* result, past two numbers.
C8_Witness ==
    /\ Sorted
    /\ sliceType = "[]K"
    /\ less = "floatAscending"
    /\ Len(V) = 3
    /\ input.elems[3].nan /\ ~input.elems[1].nan /\ ~input.elems[2].nan
    /\ KeysNow[1].nan

\* C9: Sort on a collection of zero elements fails with EmptyCollection for
\* every getter and ordering, raised by New before Sorter.Sort runs; it never
\* returns normally.
C9_EmptyCollectionFails ==
    (Len(V) = 0 /\ op = "Sort") =>
        /\ pc = "panic"
        /\ err = "EmptyCollection"
        /\ vals = <<>>
        /\ did = <<>>

\* C9's case: a Sort of no child slices with IndexGetter,
\* CaseInsensitiveDescending, has failed.
C9_Witness ==
    /\ Len(V) = 0
    /\ pc = "panic"
    /\ err = "EmptyCollection"
    /\ G = "IndexGetter"
    /\ Ordering = CaseInsensitiveDescending

\* The key types Sort accepts: string, bool, the signed and unsigned
\* integers, the floats and time.Time.
SupportedTypes ==
    {"string", "bool", "int", "int8", "int16", "int32", "int64", "uint", "uint8",
     "uint16", "uint32", "uint64", "float32", "float64", "time.Time"}

\* Sorter.Sort has run on a collection whose first key is of type t.
SortRanOn(t) ==
    /\ op = "Sort"
    /\ pc \in {"panic", "gap", "insert", "done"}
    /\ Len(V) > 0
    /\ err # "IndexOutOfRange"
    /\ KeyIn(ElemAt(1)).type = t

\* C10: Sort fails with UnsupportedType whenever the first extracted key is
\* neither string, bool, signed integer, unsigned integer, float nor
\* time.Time, for every ordering.
C10_UnsupportedTypeFails ==
    \A t \in KeyTypes \ SupportedTypes :
        SortRanOn(t) => (pc = "panic" /\ err = "UnsupportedType")

\* C10's case: a Sort by a plain struct field, CaseInsensitiveAscending, has
\* failed.
C10_Witness ==
    /\ SortRanOn("InvalidType")
    /\ sliceType = "[]Item"
    /\ Ordering = CaseInsensitiveAscending
    /\ pc = "panic"
    /\ err = "UnsupportedType"

\* The key types of the kinds that have no case: bool, the signed and unsigned
\* integers, the floats and time.Time.
CaselessTypes == SupportedTypes \ {"string"}

CaseInsensitive == {CaseInsensitiveAscending, CaseInsensitiveDescending}

\* C11: with CaseInsensitiveAscending or CaseInsensitiveDescending, Sort
\* fails with InvalidOrderingForKind when the first key is a bool, a signed or
\* unsigned integer, a float or a time.Time (no adapter is ever chosen for it),
\* and does not fail when the first key is a string.
C11_InvalidOrderingFails ==
    Ordering \in CaseInsensitive =>
        /\ \A t \in CaselessTypes :
              SortRanOn(t) =>
                  (pc = "panic" /\ err = "InvalidOrderingForKind" /\ less = "")
        /\ SortRanOn("string") =>
              (pc # "panic" /\ err = ""
               /\ less = (IF Ordering = CaseInsensitiveAscending
                          THEN "stringInsensitiveAscending"
                          ELSE "stringInsensitiveDescending"))

\* C11's case: a Sort of time.Time fields, CaseInsensitiveDescending, has
\* failed with the invalid-ordering panic.
C11_Witness ==
    /\ SortRanOn("time.Time")
    /\ Len(V) > 1
    /\ Ordering = CaseInsensitiveDescending
    /\ pc = "panic"
    /\ err = "InvalidOrderingForKind"

\* C11's accepted case: a case-insensitive Sort of strings has completed.
C11_WitnessString ==
    /\ SortRanOn("string")
    /\ Ordering = CaseInsensitiveAscending
    /\ Sorted

\* Reverse has returned on the collection in hand.
Reversed == pc = "reversed" /\ op = "Reverse"

\* C12: after Reverse the collection has the length it had, and the element
\* at every position is the one that was at the mirrored position when Reverse
\* was called; with no element or one nothing moves, and the middle element
\* of an odd length stays where it was.
C12_ReverseMirrors ==
    Reversed =>
        /\ Len(Contents) = Len(before)
        /\ \A k \in 1..Len(before) : Contents[k] = before[Len(before) + 1 - k]

\* C12's case: Reverse has returned on three elements, the outer two of which
\* differ and have changed places around the middle one.
C12_Witness ==
    /\ Reversed
    /\ Len(before) = 3
    /\ before[1] # before[3]
    /\ Contents[1] = before[3]
    /\ Contents[2] = before[2]
    /\ Contents[3] = before[1]

\* SortReverse has returned on the collection in hand.
SortReversed == pc = "reversed" /\ op = "SortReverse"

\* C13: after SortReverse no element is Less, by the capability's own Less,
\* than the element after it: the collection is in the opposite of the
\* capability's order.  SortableItems and SortablePointers, whose Less is
\* "greater than" on Id, end up with their Ids ascending.
C13_SortReverseOpposite ==
    SortReversed =>
        /\ \A k \in 0..(SortableItemsLen - 2) : ~SortableItemsLess(k, k + 1)
        /\ \A k \in 1..(Len(Contents) - 1) : Contents[k].Id <= Contents[k + 1].Id

\* C13's case: SortReverse has returned on three items that were neither in
\* ascending nor in descending order of Id (a Sort by the field had moved
\* them) and are now in ascending order of Id.
C13_Witness ==
    /\ SortReversed
    /\ sliceType = "[]Item"
    /\ did = <<"Sort", "SortReverse">>
    /\ Len(before) = 3
    /\ before[1].Id = 2 /\ before[2].Id = 3 /\ before[3].Id = 1
    /\ Contents[1].Id = 1 /\ Contents[2].Id = 2 /\ Contents[3].Id = 3

\* The Swap calls Reverse makes on n elements.
HalfOf(n) == n \div 2

\* Reverse's loop, in Reverse or in SortReverse: when it has made k Swap calls
\* the next one is Swap(k, n-1-k), it makes no more than HalfOf(n), and it has
\* made exactly HalfOf(n) when it returns; it calls Less at no point.
ReverseCounts ==
    /\ pc = "reverse" =>
         /\ i = swaps
         /\ j = Len(V) - 1 - swaps
         /\ swaps <= HalfOf(Len(V))
         /\ (i < j) = (swaps < HalfOf(Len(V)))
         /\ compares = 0
    /\ pc = "reversed" =>
         /\ swaps = HalfOf(Len(V))
         /\ compares = 0

\* C14: Reverse on n elements returns after exactly n/2 (rounded down) Swap
\* calls, the k-th (from 0) being Swap(k, n-1-k), so that no index is swapped
\* twice, and without a call of Less.
C14_ReverseSwapCount == []ReverseCounts /\ (pc = "reverse" ~> pc = "reversed")

\* C14's case: Reverse has returned on three elements after one Swap.
C14_Witness ==
    /\ Reversed
    /\ Len(V) = 3
    /\ swaps = 1
    /\ i = 1 /\ j = 1
    /\ compares = 0

\* How many times e occurs in the sequence s.
Count(s, e) == Cardinality({k \in 1..Len(s) : s[k] = e})

\* a and b have the same length and the same elements, each as many times.
PermutationOf(a, b) ==
    /\ Len(a) = Len(b)
    /\ \A k \in 1..Len(a) : Count(a, a[k]) = Count(b, a[k])

\* C15: in every state during and after Sort, Reverse or SortReverse the
\* collection is a permutation of the one the operation was called on, and
\* of the input: the same length, every element as many times (for a
\* collection of references, every reference as many times).
C15_PermutationOfInput ==
    op # "" =>
        /\ PermutationOf(Contents, before)
        /\ PermutationOf(Contents, input.elems)
        /\ PermutationOf(V, SlotsOf(sliceType, input.elems))

\* C15's case: a Sort of three keys, the last two equal, is under way and has
\* made two Swap calls.
C15_Witness ==
    /\ op = "Sort"
    /\ pc = "insert"
    /\ sliceType = "[]K"
    /\ Len(before) = 3
    /\ before[2] = before[3]
    /\ before[1] # before[2]
    /\ swaps = 2
    /\ Contents = <<before[2], before[3], before[1]>>

\* Sorter.Sort has panicked over the first key's type or over the ordering.
DispatchFailed ==
    /\ op = "Sort"
    /\ pc = "panic"
    /\ err \in {"UnsupportedType", "InvalidOrderingForKind"}

\* C16: when Sort fails because the first key's type is unsupported or the
\* ordering is invalid for its kind, no Swap and no Less call has been made
\* and the collection is, slot by slot, the one Sort was called on.
C16_FailureLeavesCollection ==
    DispatchFailed =>
        /\ swaps = 0
        /\ compares = 0
        /\ Contents = before
        /\ V = SlotsOf(sliceType, input.elems)
        /\ heap = HeapOf(sliceType, input.elems)

\* C16's case: a case-insensitive Sort of three pointers by an integer field,
\* the first greater than the second, has failed over the ordering.
C16_Witness ==
    /\ DispatchFailed
    /\ err = "InvalidOrderingForKind"
    /\ sliceType = "[]*Item"
    /\ Len(V) = 3
    /\ valKind = "Int8"
    /\ intAscendingLess(KeysNow[2], KeysNow[1])

\* C16's other case: a Sort of two keys of an unsupported type has failed.
C16_WitnessType ==
    /\ DispatchFailed
    /\ err = "UnsupportedType"
    /\ Len(V) = 2

\* The ordering table: the Ascending adapter and the Descending adapter of
\* the family the adapter t belongs to.
FamilyOf(t) ==
    CASE t \in {"stringAscending", "stringDescending"} ->
           [asc |-> "stringAscending", desc |-> "stringDescending"]
      [] t \in {"stringInsensitiveAscending", "stringInsensitiveDescending"} ->
           [asc |-> "stringInsensitiveAscending", desc |-> "stringInsensitiveDescending"]
      [] t \in {"boolAscending", "boolDescending"} ->
           [asc |-> "boolAscending", desc |-> "boolDescending"]
      [] t \in {"intAscending", "intDescending"} ->
           [asc |-> "intAscending", desc |-> "intDescending"]
      [] t \in {"uintAscending", "uintDescending"} ->
           [asc |-> "uintAscending", desc |-> "uintDescending"]
      [] t \in {"floatAscending", "floatDescending"} ->
           [asc |-> "floatAscending", desc |-> "floatDescending"]
      [] t \in {"timeAscending", "timeDescending"} ->
           [asc |-> "timeAscending", desc |-> "timeDescending"]

\* Neither of a and b is Less than the other by the adapter t.
Tied(t, a, b) == ~LessOf(t, a, b) /\ ~LessOf(t, b, a)

\* The adapter t is a strict weak order on the keys ks: irreflexive,
\* asymmetric, transitive, and with a transitive "neither is less".
StrictWeakOrder(t, ks) ==
    \A a \in ks, b \in ks, c \in ks :
        /\ ~LessOf(t, a, a)
        /\ LessOf(t, a, b) => ~LessOf(t, b, a)
        /\ (LessOf(t, a, b) /\ LessOf(t, b, c)) => LessOf(t, a, c)
        /\ (Tied(t, a, b) /\ Tied(t, b, c)) => Tied(t, a, c)

\* The Descending adapter is the converse of the Ascending one on the keys ks.
Converse(asc, desc, ks) ==
    \A a \in ks, b \in ks : LessOf(desc, a, b) = LessOf(asc, b, a)

\* The keys the adapter of the Sort in hand reads.
KeysRead == {KeyRead(n) : n \in 0..(SorterLen - 1)}

\* Sorter.Sort has chosen an adapter and is handing it to sort.Sort, which
\* has called neither Less nor Swap yet.
AdapterChosen ==
    /\ op = "Sort"
    /\ pc \in {"gap", "insert"}
    /\ compares = 0
    /\ swaps = 0

\* C17: on the keys of any collection Sort has chosen an adapter for, the
\* Ascending and the Descending Less of the adapter's family are strict weak
\* orders (Less(a, a) is false, Less(a, b) excludes Less(b, a), Less is
\* transitive), floats mixed with NaN included, and the Descending Less is
\* the converse of the Ascending one.
C17_StrictWeakOrders ==
    AdapterChosen =>
        /\ less \in {FamilyOf(less).asc, FamilyOf(less).desc}
        /\ StrictWeakOrder(FamilyOf(less).asc, KeysRead)
        /\ StrictWeakOrder(FamilyOf(less).desc, KeysRead)
        /\ Converse(FamilyOf(less).asc, FamilyOf(less).desc, KeysRead)

\* C17's case: a Descending Sort of a NaN and two different numbers is about
\* to compare them; the NaN is Less than neither number and both are Less
\* than it.
C17_Witness ==
    /\ AdapterChosen
    /\ less = "floatDescending"
    /\ Cardinality(KeysRead) = 3
    /\ \E a \in KeysRead, b \in KeysRead, c \in KeysRead :
         /\ a.nan /\ ~b.nan /\ ~c.nan
         /\ LessOf(less, b, c)
         /\ LessOf(less, c, a)
         /\ LessOf(less, b, a)
         /\ ~LessOf(less, a, b)

====
